---- MODULE Spec2Model ----
(***************************************************************************)
(* A model of GraphQL_Converter (src/main.py): the conversion of a GraphQL *)
(* introspection result into SDL text, the edges of the type diagram, and  *)
(* the stages of the command-line run.                                     *)
(*                                                                         *)
(* Text is a sequence of one-character strings, so that suffix tests,      *)
(* slicing, capitalisation and concatenation are computed as Python        *)
(* computes them.  An optional value (a key that may be absent or null) is *)
(* a sequence of length 0 (None) or 1 (the value).                         *)
(***************************************************************************)
EXTENDS Integers, Sequences, FiniteSets, TLC

VARIABLES
    args,            \* the function called and its arguments
    ret,             \* its outcome, None until it has returned or raised
    pc,              \* the position of main / of the running generator
    document,        \* the input file: how it reads, and its types array
    visual,          \* args.visual
    types,           \* introspection_data['data']['__schema']['types']
    idx,             \* the loop index of the running "for t in types"
    schema_parts,    \* generate_graphql_schema's list of SDL blocks
    graphql_schema,  \* the SDL text returned by generate_graphql_schema
    edges,           \* the dot.edge calls of generate_graphviz_diagram
    files,           \* the output files opened for writing so far
    stages,          \* the stages main has entered, in order
    status           \* the exit status of the process, None while running

vars == <<args, ret, pc, document, visual, types, idx, schema_parts,
          graphql_schema, edges, files, stages, status>>

-----------------------------------------------------------------------------
(* Bounds *)

\* the longest name drawn for singularize
MaxNameLen == 3
\* the deepest TypeRef chain drawn (number of wrappers)
MaxDepth == 2
\* the longest types array drawn
MaxTypes == 2
\* the interpreter's recursion limit (sys.getrecursionlimit(), 1000 by
\* default), scaled down; every chain drawn is shallower than it
RecursionLimit == 6

-----------------------------------------------------------------------------
(* Optional values and text *)

None == <<>>
Some(x) == <<x>>
IsNone(o) == o = <<>>
Get(o) == o[1]

\* a[:-n]
DropLast(s, n) == IF Len(s) <= n THEN <<>> ELSE SubSeq(s, 1, Len(s) - n)

\* str.endswith
EndsWith(s, suffix) ==
    /\ Len(s) >= Len(suffix)
    /\ SubSeq(s, Len(s) - Len(suffix) + 1, Len(s)) = suffix

\* str.startswith
StartsWith(s, prefix) ==
    /\ Len(s) >= Len(prefix)
    /\ SubSeq(s, 1, Len(prefix)) = prefix

LowerLetters == <<"a", "b", "c", "d", "e", "g", "i", "o", "p", "r", "s", "t", "y">>
UpperLetters == <<"A", "B", "C", "D", "E", "G", "I", "O", "P", "R", "S", "T", "Y">>

IsUpper(c) == \E k \in 1..Len(UpperLetters) : UpperLetters[k] = c
IsLower(c) == \E k \in 1..Len(LowerLetters) : LowerLetters[k] = c

\* str.upper on one character: a character that is no lowercase letter is kept
ToUpper(c) ==
    IF IsLower(c)
    THEN UpperLetters[CHOOSE k \in 1..Len(LowerLetters) : LowerLetters[k] = c]
    ELSE c

\* str.lower on one character
ToLower(c) ==
    IF IsUpper(c)
    THEN LowerLetters[CHOOSE k \in 1..Len(UpperLetters) : UpperLetters[k] = c]
    ELSE c

\* str.capitalize: the first character uppercased, every other one lowercased
Capitalize(s) ==
    IF s = <<>> THEN <<>>
    ELSE <<ToUpper(s[1])>> \o [k \in 1..(Len(s) - 1) |-> ToLower(s[k + 1])]

UNKNOWN == <<"U", "N", "K", "N", "O", "W", "N">>

-----------------------------------------------------------------------------
(* singularize, src/main.py 16-26 *)

\* singularize without the capitalisation
singularizeLower(name) ==
    IF EndsWith(name, <<"i", "e", "s">>)
    THEN DropLast(name, 3) \o <<"y">>
    ELSE IF EndsWith(name, <<"s">>) THEN DropLast(name, 1) ELSE name

singularize(name) ==
    IF EndsWith(name, <<"i", "e", "s">>)
    THEN DropLast(name, 3) \o <<"y">>
    ELSE IF EndsWith(name, <<"s">>)
         THEN Capitalize(DropLast(name, 1))
         ELSE Capitalize(name)

-----------------------------------------------------------------------------
(* TypeRef and Type values *)

\* a TypeRef: {"kind": ..., "name": ..., "ofType": ...}, each key optional
TypeRef(kind, name, ofType) == [kind |-> kind, name |-> name, ofType |-> ofType]

\* an element of the types array; kind is None when the key is absent
Type(name, kind, fields, inputFields, enumValues) ==
    [name |-> name, kind |-> kind, fields |-> fields,
     inputFields |-> inputFields, enumValues |-> enumValues]

\* Python truthiness of an optional string, list or dict
TruthyText(o) == ~IsNone(o) /\ Get(o) # <<>>
TruthyMap(o) == ~IsNone(o) /\ DOMAIN Get(o) # {}

-----------------------------------------------------------------------------
(* convert_type, src/main.py 28-60 *)

\* the outcome of a call: a returned text, or an exception leaving the call
Returned(text) == [ok |-> TRUE, val |-> text]
Raised == [ok |-> FALSE, val |-> <<>>]

\* type_map.get(candidate, {}).get("kind", "OBJECT")
GuessedKind(candidate, type_map) ==
    IF candidate \in DOMAIN type_map /\ ~IsNone(type_map[candidate].kind)
    THEN type_map[candidate].kind
    ELSE Some("OBJECT")

\* a fallback that gives up the guessed name when the lookup fails
FallbackInnerUnknown(fallback_field_name, type_map) ==
    IF /\ TruthyText(fallback_field_name) /\ TruthyMap(type_map)
       /\ singularize(Get(fallback_field_name)) \in DOMAIN Get(type_map)
    THEN LET candidate == singularize(Get(fallback_field_name))
         IN  TypeRef(GuessedKind(candidate, Get(type_map)), Some(candidate), None)
    ELSE TypeRef(Some("OBJECT"), Some(UNKNOWN), None)

\* the inner type put in place of a missing ofType (lines 40-46 and 51-57)
FallbackInner(fallback_field_name, type_map) ==
    IF TruthyText(fallback_field_name) /\ TruthyMap(type_map)
    THEN LET candidate == singularize(Get(fallback_field_name))
         IN  TypeRef(GuessedKind(candidate, Get(type_map)), Some(candidate), None)
    ELSE TypeRef(Some("OBJECT"), Some(UNKNOWN), None)

\* f"{...}!" and f"[{...}]"
WrapNonNull(s) == s \o <<"!">>
WrapListOpen(s) == <<"[">> \o s
WrapList(s) == <<"[">> \o s \o <<"]">>

\* graphql_type.get('name') or "UNKNOWN"
LeafName(graphql_type) ==
    IF TruthyText(graphql_type.name) THEN Get(graphql_type.name) ELSE UNKNOWN

RECURSIVE ConvertType(_, _, _, _)
\* depth is the number of convert_type frames on the stack, this one included
ConvertType(graphql_type, fallback_field_name, type_map, depth) ==
    IF depth > RecursionLimit THEN Raised
    ELSE IF IsNone(graphql_type) THEN Returned(UNKNOWN)
    ELSE LET t == Get(graphql_type)
             inner == IF IsNone(t.ofType)
                      THEN Some(FallbackInner(fallback_field_name, type_map))
                      ELSE t.ofType
             r == ConvertType(inner, fallback_field_name, type_map, depth + 1)
         IN  IF t.kind = Some("NON_NULL")
             THEN IF r.ok THEN Returned(WrapNonNull(r.val)) ELSE Raised
             ELSE IF t.kind = Some("LIST")
             THEN IF r.ok THEN Returned(WrapList(r.val)) ELSE Raised
             ELSE Returned(LeafName(t))

convert_type(graphql_type, fallback_field_name, type_map) ==
    ConvertType(graphql_type, fallback_field_name, type_map, 1)

-----------------------------------------------------------------------------
(* The inputs drawn for the pure functions *)

SeqsUpTo(S, n) == UNION {[1..k -> S] : k \in 0..n}

Posts == <<"p", "o", "s", "t", "s">>
Post == <<"P", "o", "s", "t">>
Categories == <<"c", "a", "t", "e", "g", "o", "r", "i", "e", "s">>
Category == <<"C", "a", "t", "e", "g", "o", "r", "y">>
Data == <<"d", "a", "t", "a">>
DataType == <<"D", "a", "t", "a">>

NameAlphabet == {"i", "e", "s", "a", "B", "_"}
NameInputs == SeqsUpTo(NameAlphabet, MaxNameLen) \cup {Posts, Categories, Data}

LeafKinds == {"OBJECT", "SCALAR"}
WrapperKinds == {"NON_NULL", "LIST"}
LeafNames == {None, Some(<<>>), Some(Post)}

Leaves == {TypeRef(Some(k), n, None) : k \in LeafKinds, n \in LeafNames}

RECURSIVE TypeRefs(_)
\* the TypeRef chains of at most d wrappers; a wrapper's ofType may be missing
TypeRefs(d) ==
    IF d = 0 THEN Leaves
    ELSE LET inner == TypeRefs(d - 1)
         IN  Leaves \cup {TypeRef(Some(k), None, o) :
                            k \in WrapperKinds, o \in {None} \cup {Some(i) : i \in inner}}

FallbackNames == {None, Some(<<>>), Some(Posts), Some(Data), Some(<<"s">>)}

MapNames == {Post, DataType}
MapKinds == {None, Some("OBJECT"), Some("LIST"), Some("NON_NULL")}
TypeMaps ==
    {None} \cup
    {Some([n \in D |-> Type(Some(n), k[n], None, None, None)]) :
        D \in SUBSET MapNames, k \in [MapNames -> MapKinds]}

InitRun ==
    /\ pc = "idle"
    /\ document = [reads |-> "none", path |-> FALSE, types |-> <<>>]
    /\ visual = FALSE
    /\ types = <<>>
    /\ idx = 0
    /\ schema_parts = <<>>
    /\ graphql_schema = None
    /\ edges = None
    /\ files = {}
    /\ stages = <<>>
    /\ status = None

runVars == <<pc, document, visual, types, idx, schema_parts, graphql_schema,
             edges, files, stages, status>>

InitSingularize ==
    /\ args \in {[fn |-> "singularize", name |-> n] : n \in NameInputs}
    /\ ret = None
    /\ InitRun

CallSingularize ==
    /\ args.fn = "singularize"
    /\ ret = None
    /\ ret' = Some(singularize(args.name))
    /\ UNCHANGED <<args, runVars>>

SpecSingularize == InitSingularize /\ [][CallSingularize]_vars

InitConvertType ==
    /\ args \in {[fn |-> "convert_type", graphql_type |-> g,
                  fallback_field_name |-> f, type_map |-> m] :
                    g \in {None} \cup {Some(r) : r \in TypeRefs(MaxDepth)},
                    f \in FallbackNames, m \in TypeMaps}
    /\ ret = None
    /\ InitRun

CallConvertType ==
    /\ args.fn = "convert_type"
    /\ ret = None
    /\ ret' = Some(convert_type(args.graphql_type, args.fallback_field_name,
                                args.type_map))
    /\ UNCHANGED <<args, runVars>>

SpecConvertType == InitConvertType /\ [][CallConvertType]_vars

-----------------------------------------------------------------------------
(* generate_graphql_schema, src/main.py 62-72 and 101-132 *)

\* a field: {"name": ..., "type": ..., "defaultValue": ...}
Field(name, type, defaultValue) ==
    [name |-> name, type |-> type, defaultValue |-> defaultValue]

RECURSIVE Join(_, _)
\* sep.join(parts)
Join(sep, parts) ==
    IF parts = <<>> THEN <<>>
    ELSE IF Len(parts) = 1 THEN parts[1]
    ELSE parts[1] \o sep \o Join(sep, Tail(parts))

NewlineIndent == <<"\n", " ", " ">>
BlankLine == <<"\n", "\n">>
Newline == <<"\n">>

\* {t.get('name'): t for t in types if t.get('name')}: a later type of the
\* same name replaces an earlier one
TypeMapOf(ts) ==
    LET names == {Get(ts[k].name) : k \in {j \in 1..Len(ts) : TruthyText(ts[j].name)}}
        last(n) == CHOOSE k \in 1..Len(ts) :
                      /\ ts[k].name = Some(n)
                      /\ \A j \in 1..Len(ts) : ts[j].name = Some(n) => j <= k
    IN  Some([n \in names |-> ts[last(n)]])

\* convert_field (62-64)
convert_field(field, type_map) ==
    LET r == convert_type(field.type, Some(field.name), type_map)
    IN  IF r.ok THEN Returned(field.name \o <<":", " ">> \o r.val) ELSE Raised

\* convert_input_field (66-72); a None entry cannot be subscripted
convert_input_field(input_field, type_map) ==
    IF IsNone(input_field) THEN Raised
    ELSE LET f == Get(input_field)
             r == convert_type(f.type, Some(f.name), type_map)
             base == f.name \o <<":", " ">> \o r.val
         IN  IF ~r.ok THEN Raised
             ELSE IF ~IsNone(f.defaultValue)
                  THEN Returned(base \o <<" ", "=", " ">> \o Get(f.defaultValue))
                  ELSE Returned(base)

\* not name or name.startswith('__') (115)
SkippedName(name) == ~TruthyText(name) \/ StartsWith(Get(name), <<"_", "_">>)

\* f"type {name} {{\n  {fields_sdl}\n}}" and the input and enum forms
Braces(keyword, name, body) ==
    keyword \o name \o <<" ", "{", "\n", " ", " ">> \o body \o <<"\n", "}">>

Skip == [tag |-> "skip", block |-> <<>>]
Emit(block) == [tag |-> "emit", block |-> block]
Raise == [tag |-> "raise", block |-> <<>>]

\* the body of the loop with the test for enumValues ahead of inputFields
SchemaPartEnumFirst(t, type_map) ==
    IF SkippedName(t.name) THEN Skip
    ELSE IF ~IsNone(t.fields) THEN
        IF Get(t.fields) = <<>> THEN Skip
        ELSE LET kept == SelectSeq(Get(t.fields), LAMBDA f : ~IsNone(f))
                 lines == [k \in 1..Len(kept) |-> convert_field(Get(kept[k]), type_map)]
             IN  IF \E k \in 1..Len(lines) : ~lines[k].ok THEN Raise
                 ELSE Emit(Braces(<<"t", "y", "p", "e", " ">>, Get(t.name),
                           Join(NewlineIndent, [k \in 1..Len(lines) |-> lines[k].val])))
    ELSE IF ~IsNone(t.enumValues) THEN
        IF Get(t.enumValues) = <<>> THEN Skip
        ELSE Emit(Braces(<<"e", "n", "u", "m", " ">>, Get(t.name), Join(NewlineIndent, Get(t.enumValues))))
    ELSE IF ~IsNone(t.inputFields) THEN
        LET fs == Get(t.inputFields)
            lines == [k \in 1..Len(fs) |-> convert_input_field(fs[k], type_map)]
        IN  IF \E k \in 1..Len(lines) : ~lines[k].ok THEN Raise
            ELSE Emit(Braces(<<"i", "n", "p", "u", "t", " ">>, Get(t.name),
                      Join(NewlineIndent, [k \in 1..Len(lines) |-> lines[k].val])))
    ELSE Emit(<<"s", "c", "a", "l", "a", "r", " ">> \o Get(t.name))

\* the body of "for t in types" (114-131): what one type adds to schema_parts
SchemaPart(t, type_map) ==
    IF SkippedName(t.name) THEN Skip
    ELSE IF ~IsNone(t.fields) THEN
        IF Get(t.fields) = <<>> THEN Skip
        ELSE LET kept == SelectSeq(Get(t.fields), LAMBDA f : ~IsNone(f))
                 lines == [k \in 1..Len(kept) |-> convert_field(Get(kept[k]), type_map)]
             IN  IF \E k \in 1..Len(lines) : ~lines[k].ok THEN Raise
                 ELSE Emit(Braces(<<"t", "y", "p", "e", " ">>, Get(t.name),
                           Join(NewlineIndent, [k \in 1..Len(lines) |-> lines[k].val])))
    ELSE IF ~IsNone(t.inputFields) THEN
        LET fs == Get(t.inputFields)
            lines == [k \in 1..Len(fs) |-> convert_input_field(fs[k], type_map)]
        IN  IF \E k \in 1..Len(lines) : ~lines[k].ok THEN Raise
            ELSE Emit(Braces(<<"i", "n", "p", "u", "t", " ">>, Get(t.name),
                      Join(NewlineIndent, [k \in 1..Len(lines) |-> lines[k].val])))
    ELSE IF ~IsNone(t.enumValues) THEN
        IF Get(t.enumValues) = <<>> THEN Skip
        ELSE Emit(Braces(<<"e", "n", "u", "m", " ">>, Get(t.name), Join(NewlineIndent, Get(t.enumValues))))
    ELSE Emit(<<"s", "c", "a", "l", "a", "r", " ">> \o Get(t.name))

\* a schema_parts that grows at the front
AppendPartFront(parts, block) == <<block>> \o parts
\* schema_parts.append(...)
AppendPart(parts, block) == Append(parts, block)

\* "\n\n".join(schema_parts) + "\n" (132)
SchemaText(parts) == Join(BlankLine, parts) \o Newline

\* an exception leaving the running function: main catches it and exits with
\* a message (sys.exit(str) gives status 1); a direct call sees it raised
Fails(message) ==
    IF args.fn = "main"
    THEN /\ pc' = "exit"
         /\ status' = Some([code |-> 1, message |-> message])
         /\ ret' = ret
    ELSE /\ pc' = "raised"
         /\ ret' = Some(Raised)
         /\ status' = status

\* lines 110-112
GenerateEnter ==
    /\ pc = "generate"
    /\ stages' = Append(stages, "generate")
    /\ IF document.path
       THEN /\ types' = document.types
            /\ idx' = 0
            /\ schema_parts' = <<>>
            /\ pc' = "generate_loop"
            /\ UNCHANGED <<ret, status>>
       ELSE /\ Fails("Error generating GraphQL schema")
            /\ UNCHANGED <<types, idx, schema_parts>>
    /\ UNCHANGED <<args, document, visual, graphql_schema, edges, files>>

\* one iteration of the loop at 113
GenerateStep ==
    /\ pc = "generate_loop"
    /\ idx < Len(types)
    /\ LET part == SchemaPart(types[idx + 1], TypeMapOf(types))
       IN  IF part.tag = "raise"
           THEN /\ Fails("Error generating GraphQL schema")
                /\ UNCHANGED <<idx, schema_parts>>
           ELSE /\ idx' = idx + 1
                /\ schema_parts' = IF part.tag = "emit"
                                   THEN AppendPart(schema_parts, part.block)
                                   ELSE schema_parts
                /\ UNCHANGED <<pc, ret, status>>
    /\ UNCHANGED <<args, document, visual, types, graphql_schema, edges, files, stages>>

\* line 132, and the return to the caller
GenerateReturn ==
    /\ pc = "generate_loop"
    /\ idx = Len(types)
    /\ graphql_schema' = Some(SchemaText(schema_parts))
    /\ IF args.fn = "main"
       THEN pc' = "write_sdl" /\ ret' = ret
       ELSE pc' = "returned" /\ ret' = Some(Returned(SchemaText(schema_parts)))
    /\ UNCHANGED <<args, document, visual, types, idx, schema_parts, edges, files,
                   stages, status>>

-----------------------------------------------------------------------------
(* generate_graphviz_diagram, src/main.py 74-95 and 134-218 *)

BUILT_IN_SCALARS == {<<"I", "D">>, <<"S", "t", "r", "i", "n", "g">>, <<"I", "n", "t">>, <<"F", "l", "o", "a", "t">>, <<"B", "o", "o", "l", "e", "a", "n">>, <<"D", "a", "t", "e">>}

RECURSIVE get_base_type_name(_)
\* lines 74-83: follows ofType while there is one, then reads the name
get_base_type_name(graphql_type) ==
    IF IsNone(graphql_type) THEN None
    ELSE IF ~IsNone(Get(graphql_type).ofType)
    THEN get_base_type_name(Get(graphql_type).ofType)
    ELSE Get(graphql_type).name

RECURSIVE is_list_type(_)
\* lines 85-95
is_list_type(graphql_type) ==
    IF IsNone(graphql_type) THEN FALSE
    ELSE IF Get(graphql_type).kind = Some("LIST") THEN TRUE
    ELSE IF ~IsNone(Get(graphql_type).ofType)
    THEN is_list_type(Get(graphql_type).ofType)
    ELSE FALSE

RECURSIVE Flatten(_)
Flatten(seqs) == IF seqs = <<>> THEN <<>> ELSE seqs[1] \o Flatten(Tail(seqs))

\* t.get('fields') or t.get('inputFields') (210)
EdgeFields(t) ==
    IF ~IsNone(t.fields) /\ Get(t.fields) # <<>> THEN t.fields ELSE t.inputFields

\* lines 215-216
EdgeLabel(field) ==
    field.name \o (IF is_list_type(field.type) THEN <<" ", "[", "*", "]">> ELSE <<" ", "[", "1", "]">>)

\* the test at 214 without the comparison with the source type
HasEdgeToSelf(src_name, field, type_map) ==
    LET base == get_base_type_name(field.type)
    IN  /\ TruthyText(base)
        /\ Get(base) \notin BUILT_IN_SCALARS
        /\ Get(base) \in DOMAIN Get(type_map)
\* the test at 214
HasEdge(src_name, field, type_map) ==
    LET base == get_base_type_name(field.type)
    IN  /\ TruthyText(base)
        /\ Get(base) \notin BUILT_IN_SCALARS
        /\ Get(base) \in DOMAIN Get(type_map)
        /\ Get(base) # src_name

\* the dot.edge calls made for one type (207-217)
EdgesOfType(t, type_map) ==
    IF SkippedName(t.name) \/ IsNone(EdgeFields(t)) THEN <<>>
    ELSE LET fs == Get(EdgeFields(t))
             with == SelectSeq(fs, LAMBDA f : HasEdge(Get(t.name), Get(f), type_map))
         IN  [k \in 1..Len(with) |->
                 [src |-> Get(t.name),
                  dst |-> Get(get_base_type_name(Get(with[k]).type)),
                  label |-> EdgeLabel(Get(with[k]))]]

max_fields == 5

\* whether building the node of t raises (149-203): a label line is made for
\* each of the first max_fields fields, and a None field has no 'name'
NodeRaises(t, type_map) ==
    /\ ~SkippedName(t.name)
    /\ (~IsNone(t.fields) \/ ~IsNone(t.inputFields))
    /\ LET fs == IF ~IsNone(t.fields) THEN Get(t.fields) ELSE Get(t.inputFields)
       IN  \E k \in 1..Len(fs) :
              /\ k <= max_fields
              /\ \/ IsNone(fs[k])
                 \/ ~convert_type(Get(fs[k]).type, Some(Get(fs[k]).name), type_map).ok

\* whether the edge loop raises on t: a None field cannot be subscripted
EdgeRaises(t) ==
    /\ ~SkippedName(t.name)
    /\ ~IsNone(EdgeFields(t))
    /\ \E k \in 1..Len(Get(EdgeFields(t))) : IsNone(Get(EdgeFields(t))[k])

\* generate_graphviz_diagram: the edges of the returned graph, or an exception
Diagram(ts) ==
    LET type_map == TypeMapOf(ts)
    IN  IF \E k \in 1..Len(ts) : NodeRaises(ts[k], type_map) \/ EdgeRaises(ts[k])
        THEN [ok |-> FALSE, edges |-> <<>>]
        ELSE [ok |-> TRUE,
              edges |-> Flatten([k \in 1..Len(ts) |-> EdgesOfType(ts[k], type_map)])]

-----------------------------------------------------------------------------
(* main, src/main.py 220-345 *)

Exit(message) ==
    /\ pc' = "exit"
    /\ status' = Some([code |-> 1, message |-> message])

\* lines 311-315
ReadInput ==
    /\ pc = "read"
    /\ stages' = Append(stages, "read")
    /\ IF document.reads = "json"
       THEN pc' = "generate" /\ status' = status
       ELSE Exit("Error reading input file")
    /\ UNCHANGED <<args, ret, document, visual, types, idx, schema_parts,
                   graphql_schema, edges, files>>

\* what follows the SDL file in main (332): the diagram when asked for
AfterSdl == IF visual THEN "diagram" ELSE "done"

Finish(next) ==
    /\ pc' = next
    /\ status' = IF next = "done" THEN Some([code |-> 0, message |-> ""]) ELSE status

\* a failed SDL write that goes on to the diagram
WriteSdlFailedContinues ==
    /\ files' \in {files, files \cup {"graphql"}}
    /\ pc' = "diagram"
    /\ status' = status
\* the except branch at 328-329; open() may have created the file already
WriteSdlFailed ==
    /\ files' \in {files, files \cup {"graphql"}}
    /\ Exit("Error writing to output file")

\* lines 324-329
WriteSdl ==
    /\ pc = "write_sdl"
    /\ stages' = Append(stages, "write_sdl")
    /\ \/ WriteSdlFailed
       \/ /\ files' = files \cup {"graphql"}
          /\ Finish(AfterSdl)
    /\ UNCHANGED <<args, ret, document, visual, types, idx, schema_parts,
                   graphql_schema, edges>>

\* lines 337-343: the graph is built, then rendered to the SVG file
RenderDiagram ==
    /\ pc = "diagram"
    /\ stages' = Append(stages, "diagram")
    /\ LET dot == Diagram(types)
       IN  IF ~dot.ok
           THEN /\ Exit("Error generating Graphviz diagram")
                /\ UNCHANGED <<edges, files>>
           ELSE /\ edges' = Some(dot.edges)
                /\ \/ /\ files' \in {files, files \cup {"svg"}}
                      /\ Exit("Error generating Graphviz diagram")
                   \/ /\ files' = files \cup {"svg"}
                      /\ pc' = "html"
                      /\ status' = status
    /\ UNCHANGED <<args, ret, document, visual, types, idx, schema_parts, graphql_schema>>

\* generate_visual_html (220-292), called at 345
VisualHtml ==
    /\ pc = "html"
    /\ stages' = Append(stages, "html")
    /\ \/ /\ files' = files
          /\ Exit("Error reading generated SVG file")
       \/ /\ files' \in {files, files \cup {"html"}}
          /\ Exit("Error writing visual HTML file")
       \/ /\ files' = files \cup {"html"}
          /\ Finish("done")
    /\ UNCHANGED <<args, ret, document, visual, types, idx, schema_parts,
                   graphql_schema, edges>>

-----------------------------------------------------------------------------
(* The documents drawn for generate_graphql_schema and for main *)

NameA == <<"A">>
Internal == <<"_", "_", "T">>
Leaf(kind, name) == TypeRef(Some(kind), Some(name), None)
Wrap(kind, inner) == TypeRef(Some(kind), None, Some(inner))
Missing(kind) == TypeRef(Some(kind), None, None)

idField == Field(<<"i", "d">>, Some(Wrap("NON_NULL", Leaf("SCALAR", <<"I", "D">>))), None)
postsField == Field(Posts, Some(Missing("LIST")), None)
nField == Field(<<"n">>, Some(Leaf("SCALAR", <<"I", "n", "t">>)), None)
nDefaultField == Field(<<"n">>, Some(Leaf("SCALAR", <<"I", "n", "t">>)), Some(<<"1">>))
Red == <<"R", "E", "D">>
Blue == <<"B", "L", "U", "E">>

Shape(fields, inputFields, enumValues) ==
    [fields |-> fields, inputFields |-> inputFields, enumValues |-> enumValues]
Shaped(name, shape) ==
    Type(name, None, shape.fields, shape.inputFields, shape.enumValues)

\* every combination of absent, empty and non-empty fields, inputFields and
\* enumValues
AllShapes ==
    {Shape(f, i, e) : f \in {None, Some(<<>>), Some(<<Some(idField)>>)},
                      i \in {None, Some(<<>>), Some(<<Some(nField)>>)},
                      e \in {None, Some(<<>>), Some(<<Red>>)}}
\* lists of two entries, a None entry, a default value, a guessed type
LongShapes ==
    {Shape(Some(<<None, Some(idField)>>), None, None),
     Shape(Some(<<Some(idField), Some(postsField)>>), None, None),
     Shape(None, Some(<<Some(nDefaultField), Some(nField)>>), None),
     Shape(None, Some(<<None>>), None),
     Shape(None, None, Some(<<Red, Blue>>))}
PlainShapes ==
    {Shape(None, None, None), Shape(Some(<<Some(idField)>>), None, None),
     Shape(None, Some(<<>>), None), Shape(None, None, Some(<<Red>>))}

GeneratePool ==
    {Shaped(Some(NameA), sh) : sh \in AllShapes \cup LongShapes}
    \cup {Shaped(Some(Post), sh) : sh \in PlainShapes}
    \cup {Shaped(n, sh) : n \in {None, Some(<<>>), Some(Internal)},
                          sh \in {Shape(None, None, None),
                                  Shape(Some(<<Some(idField)>>), None, None)}}

Documents(pool) ==
    {[reads |-> "json", path |-> FALSE, types |-> <<>>]}
    \cup {[reads |-> "json", path |-> TRUE, types |-> ts] : ts \in SeqsUpTo(pool, MaxTypes)}

InitGenerate ==
    /\ args = [fn |-> "generate_graphql_schema"]
    /\ ret = None
    /\ pc = "generate"
    /\ document \in Documents(GeneratePool)
    /\ visual = FALSE
    /\ types = <<>>
    /\ idx = 0
    /\ schema_parts = <<>>
    /\ graphql_schema = None
    /\ edges = None
    /\ files = {}
    /\ stages = <<>>
    /\ status = None

NextGenerate == GenerateEnter \/ GenerateStep \/ GenerateReturn

SpecGenerate == InitGenerate /\ [][NextGenerate]_vars

\* the fields a type of the diagram is drawn with
DiagramFields ==
    {Field(<<"p", "o", "s", "t">>, Some(Leaf("OBJECT", Post)), None),
     Field(Posts, Some(Wrap("NON_NULL", Wrap("LIST", Wrap("NON_NULL", Leaf("OBJECT", Post))))), None),
     Field(<<"a">>, Some(Wrap("LIST", Leaf("OBJECT", NameA))), None),
     Field(<<"i", "d">>, Some(Wrap("NON_NULL", Leaf("SCALAR", <<"I", "D">>))), None),
     Field(Posts, Some(Missing("LIST")), None),
     Field(<<"g">>, Some(Leaf("OBJECT", <<"G">>)), None),
     Field(<<"t">>, Some(Leaf("SCALAR", Internal)), None),
     Field(<<"n">>, None, None)}

MainPool ==
    {Type(Some(n), Some("OBJECT"), Some(<<Some(f)>>), None, None) :
        n \in {NameA, Post}, f \in DiagramFields}
    \cup {Type(Some(n), Some("INPUT_OBJECT"), None, Some(<<Some(f)>>), None) :
        n \in {NameA}, f \in DiagramFields}
    \cup {Type(Some(<<"I", "D">>), Some("SCALAR"), None, None, None),
          Type(Some(Internal), Some("OBJECT"),
               Some(<<Some(Field(<<"p">>, Some(Leaf("OBJECT", Post)), None))>>), None, None),
          Type(None, Some("OBJECT"),
               Some(<<Some(Field(<<"p">>, Some(Leaf("OBJECT", Post)), None))>>), None, None),
          Type(Some(NameA), Some("OBJECT"), Some(<<None>>), None, None),
          Type(Some(NameA), Some("INPUT_OBJECT"), None, Some(<<None>>), None),
          Type(Some(Post), Some("ENUM"), None, None, Some(<<Red>>))}

InitMain ==
    /\ args = [fn |-> "main"]
    /\ ret = None
    /\ pc = "read"
    /\ document \in Documents(MainPool)
                    \cup {[reads |-> r, path |-> FALSE, types |-> <<>>] :
                            r \in {"unreadable", "not_json"}}
    /\ visual \in BOOLEAN
    /\ types = <<>>
    /\ idx = 0
    /\ schema_parts = <<>>
    /\ graphql_schema = None
    /\ edges = None
    /\ files = {}
    /\ stages = <<>>
    /\ status = None

Next ==
    \/ ReadInput
    \/ GenerateEnter
    \/ GenerateStep
    \/ GenerateReturn
    \/ WriteSdl
    \/ RenderDiagram
    \/ VisualHtml

Spec == InitMain /\ [][Next]_vars

-----------------------------------------------------------------------------
(* Claims about singularize and convert_type *)

IsWrapper(t) == t.kind \in {Some(k) : k \in WrapperKinds}

RECURSIVE WellFormed(_)
\* every NON_NULL and LIST wrapper of the chain has an ofType
WellFormed(graphql_type) ==
    \/ IsNone(graphql_type)
    \/ LET t == Get(graphql_type)
       IN  IsWrapper(t) => (~IsNone(t.ofType) /\ WellFormed(t.ofType))

RECURSIVE Structural(_)
\* the structural mapping of the claim, which reads the TypeRef alone
Structural(graphql_type) ==
    IF IsNone(graphql_type) THEN UNKNOWN
    ELSE LET t == Get(graphql_type)
         IN  CASE t.kind = Some("NON_NULL") -> Structural(t.ofType) \o <<"!">>
               [] t.kind = Some("LIST") -> <<"[">> \o Structural(t.ofType) \o <<"]">>
               [] OTHER -> IF IsNone(t.name) \/ Get(t.name) = <<>>
                           THEN UNKNOWN ELSE Get(t.name)

RECURSIVE Fill(_, _)
\* the chain with every missing ofType of a wrapper replaced by leaf
Fill(graphql_type, leaf) ==
    IF IsNone(graphql_type) THEN None
    ELSE LET t == Get(graphql_type)
         IN  IF ~IsWrapper(t) THEN graphql_type
             ELSE IF IsNone(t.ofType) THEN Some([t EXCEPT !.ofType = Some(leaf)])
             ELSE Some([t EXCEPT !.ofType = Fill(t.ofType, leaf)])

ConvertReturned == args.fn = "convert_type" /\ ~IsNone(ret)
MissingOfType == ~WellFormed(args.graphql_type)
NoGuess == ~TruthyText(args.fallback_field_name) \/ ~TruthyMap(args.type_map)
LookupFails ==
    /\ ~NoGuess
    /\ singularize(Get(args.fallback_field_name)) \notin DOMAIN Get(args.type_map)
UnknownLeaf == TypeRef(Some("OBJECT"), Some(UNKNOWN), None)

\* C1: for a well-formed TypeRef chain, convert_type returns the structural
\* mapping of the chain (NON_NULL(X) -> X!, LIST(X) -> [X], a leaf -> its name
\* or UNKNOWN, an absent TypeRef -> UNKNOWN), whatever the fallback field name
\* and the TypeMap are.
C1_StructuralMapping ==
    (ConvertReturned /\ WellFormed(args.graphql_type))
        => Get(ret) = Returned(Structural(args.graphql_type))

\* a non-null list of a named leaf, converted with a fallback name and a
\* TypeMap that would give a guess
C1_Witness ==
    /\ ConvertReturned
    /\ args.graphql_type =
         Some(TypeRef(Some("NON_NULL"), None,
              Some(TypeRef(Some("LIST"), None,
                   Some(TypeRef(Some("OBJECT"), Some(Post), None))))))
    /\ args.fallback_field_name = Some(Data)
    /\ TruthyMap(args.type_map) /\ DataType \in DOMAIN Get(args.type_map)
    /\ Get(ret).val = <<"[", "P", "o", "s", "t", "]", "!">>

\* C2 as stated: with a missing ofType and no guess possible, or a failed map
\* lookup, the inner type is OBJECT/UNKNOWN and the result is UNKNOWN! or
\* [UNKNOWN].
C2_Original ==
    (ConvertReturned /\ MissingOfType /\ (NoGuess \/ LookupFails))
        => Get(ret) = Returned(Structural(Fill(args.graphql_type, UnknownLeaf)))

\* C2 as amended: the inner type is OBJECT/UNKNOWN when the fallback field name
\* or the TypeMap is absent or empty; when both are non-empty and
\* singularize(fallbackFieldName) is not a key of the TypeMap, the inner type
\* is OBJECT with the name singularize(fallbackFieldName).
C2_Amended ==
    /\ (ConvertReturned /\ MissingOfType /\ NoGuess)
          => Get(ret) = Returned(Structural(Fill(args.graphql_type, UnknownLeaf)))
    /\ (ConvertReturned /\ MissingOfType /\ LookupFails)
          => Get(ret) = Returned(Structural(Fill(args.graphql_type,
                 TypeRef(Some("OBJECT"),
                         Some(singularize(Get(args.fallback_field_name))), None))))

\* a NON_NULL without ofType, the field "posts" and a TypeMap without Post
C2_Witness ==
    /\ ConvertReturned
    /\ args.graphql_type = Some(TypeRef(Some("NON_NULL"), None, None))
    /\ args.fallback_field_name = Some(Posts)
    /\ LookupFails
    /\ Get(ret).val = <<"P", "o", "s", "t", "!">>

\* C3: a NON_NULL (LIST) without ofType, a non-empty fallback field name f and
\* a TypeMap that holds a type named singularize(f) of a leaf kind give
\* singularize(f)! ([singularize(f)]); "posts" with a TypeMap holding Post
\* gives Post!.
C3_GuessedType ==
    /\ (/\ ConvertReturned
        /\ ~IsNone(args.graphql_type)
        /\ IsWrapper(Get(args.graphql_type))
        /\ IsNone(Get(args.graphql_type).ofType)
        /\ TruthyText(args.fallback_field_name)
        /\ ~IsNone(args.type_map)
        /\ singularize(Get(args.fallback_field_name)) \in DOMAIN Get(args.type_map)
        /\ Get(args.type_map)[singularize(Get(args.fallback_field_name))].kind
              \notin {Some(k) : k \in WrapperKinds})
           => LET f == Get(args.fallback_field_name)
              IN  /\ Get(ret).ok
                  /\ Get(ret).val =
                        IF Get(args.graphql_type).kind = Some("NON_NULL")
                        THEN singularize(f) \o <<"!">>
                        ELSE <<"[">> \o singularize(f) \o <<"]">>
    /\ (/\ ConvertReturned
        /\ args.graphql_type = Some(TypeRef(Some("NON_NULL"), None, None))
        /\ args.fallback_field_name = Some(Posts)
        /\ ~IsNone(args.type_map)
        /\ Post \in DOMAIN Get(args.type_map)
        /\ Get(args.type_map)[Post].kind \in {None, Some("OBJECT")})
           => Get(ret) = Returned(<<"P", "o", "s", "t", "!">>)

C3_Witness ==
    /\ ConvertReturned
    /\ args.graphql_type = Some(TypeRef(Some("NON_NULL"), None, None))
    /\ args.fallback_field_name = Some(Posts)
    /\ TruthyMap(args.type_map)
    /\ Post \in DOMAIN Get(args.type_map)
    /\ Get(args.type_map)[Post].kind = Some("OBJECT")
    /\ Get(ret) = Returned(<<"P", "o", "s", "t", "!">>)

\* the first letter uppercased, every other character unchanged
CapitalizeFirstOnly(s) ==
    IF s = <<>> THEN <<>> ELSE <<ToUpper(s[1])>> \o SubSeq(s, 2, Len(s))

\* the reference rule of the claim
SingularReference(name) ==
    LET stem == IF EndsWith(name, <<"i", "e", "s">>) THEN DropLast(name, 3) \o <<"y">>
                ELSE IF EndsWith(name, <<"s">>) THEN DropLast(name, 1)
                ELSE name
    IN  CapitalizeFirstOnly(stem)

\* C6: for every non-empty name singularize returns the reference rule's
\* result (ies -> y, else drop a final s, else keep; then the first letter
\* uppercased and nothing else changed); posts -> Post, categories ->
\* Category, data -> Data.
C6_ReferenceRule ==
    (args.fn = "singularize" /\ ~IsNone(ret) /\ args.name # <<>>)
        => /\ Get(ret) = SingularReference(args.name)
           /\ args.name = Posts => Get(ret) = Post
           /\ args.name = Categories => Get(ret) = Category
           /\ args.name = Data => Get(ret) = DataType

\* C8: convert_type returns a text, and never raises, for every finite chain,
\* fallback field name and TypeMap, a TypeMap whose entry named
\* singularize(fallbackFieldName) has kind LIST or NON_NULL included.
C8_NeverRaises == ConvertReturned => Get(ret).ok

-----------------------------------------------------------------------------
(* Claims about generate_graphql_schema *)

RECURSIVE Lines(_)
\* text.split("\n")
Lines(text) ==
    IF \A k \in 1..Len(text) : text[k] # "\n" THEN <<text>>
    ELSE LET k == CHOOSE i \in 1..Len(text) :
                     text[i] = "\n" /\ \A j \in 1..(i - 1) : text[j] # "\n"
         IN  <<SubSeq(text, 1, k - 1)>> \o Lines(SubSeq(text, k + 1, Len(text)))

\* the text up to the first space
FirstWord(text) ==
    IF \A k \in 1..Len(text) : text[k] # " " THEN text
    ELSE SubSeq(text, 1, (CHOOSE i \in 1..Len(text) :
                             text[i] = " " /\ \A j \in 1..(i - 1) : text[j] # " ") - 1)

Keywords == {<<"t", "y", "p", "e">>, <<"i", "n", "p", "u", "t">>, <<"e", "n", "u", "m">>, <<"s", "c", "a", "l", "a", "r">>}

\* a declaration line starts, unindented, with a keyword and a space
IsDeclaration(line) ==
    FirstWord(line) \in Keywords /\ Len(line) > Len(FirstWord(line))

\* the type names an SDL text declares, in the order of the text
DeclaredNames(sdl) ==
    LET decls == SelectSeq(Lines(sdl), IsDeclaration)
    IN  [k \in 1..Len(decls) |->
            FirstWord(SubSeq(decls[k], Len(FirstWord(decls[k])) + 2, Len(decls[k])))]

RECURSIVE IsSubsequence(_, _)
IsSubsequence(a, b) ==
    IF a = <<>> THEN TRUE
    ELSE IF b = <<>> THEN FALSE
    ELSE IF a[1] = b[1] THEN IsSubsequence(Tail(a), Tail(b))
    ELSE IsSubsequence(a, Tail(b))

\* the names of the first n input types, an absent name read as empty
InputNames(n) ==
    [k \in 1..n |-> IF IsNone(types[k].name) THEN <<>> ELSE Get(types[k].name)]

Generating == pc \in {"generate_loop", "returned", "write_sdl"}

\* the step of the loop that handles types[idx + 1] and goes on
Handles(t) ==
    /\ pc = "generate_loop"
    /\ idx < Len(types)
    /\ idx' = idx + 1
    /\ t = types[idx + 1]

\* the keyword of the block the step added, "" when it added none
AddedKeyword ==
    IF Len(schema_parts') = Len(schema_parts) THEN <<>>
    ELSE FirstWord(schema_parts'[Len(schema_parts')])

AtMostOneBlock ==
    /\ Len(schema_parts') \in {Len(schema_parts), Len(schema_parts) + 1}
    /\ SubSeq(schema_parts', 1, Len(schema_parts)) = schema_parts

Present(list) == ~IsNone(list)
Empty(list) == list = Some(<<>>)
NonEmpty(list) == Present(list) /\ ~Empty(list)

\* the list that classifies the type is present but empty
ClassifyingListEmpty(t) ==
    \/ Empty(t.fields)
    \/ ~Present(t.fields) /\ Empty(t.inputFields)
    \/ ~Present(t.fields) /\ ~Present(t.inputFields) /\ Empty(t.enumValues)

\* C4: a type whose fields list, inputFields list or enumValues list is
\* present but empty produces no SDL block.
C4_EmptyListsSkipped ==
    [][\A t \in {types[k] : k \in 1..Len(types)} :
          (Handles(t) /\ ClassifyingListEmpty(t)) => schema_parts' = schema_parts]_vars

\* C5: the type names declared in the SDL text are a subsequence of the input
\* array's type names, in the same order, and none of them is empty or begins
\* with "__".
C5_DeclarationOrder ==
    Generating =>
        LET names == DeclaredNames(IF IsNone(graphql_schema)
                                   THEN SchemaText(schema_parts)
                                   ELSE Get(graphql_schema))
        IN  /\ Len(names) = Len(schema_parts)
            /\ IsSubsequence(names, InputNames(idx))
            /\ \A k \in 1..Len(names) :
                  names[k] # <<>> /\ ~StartsWith(names[k], <<"_", "_">>)

\* two types of different names, both declared, in the order of the input
C5_Witness ==
    /\ pc = "returned"
    /\ Len(types) = 2
    /\ types[1].name = Some(NameA) /\ types[2].name = Some(Post)
    /\ DeclaredNames(Get(graphql_schema)) = <<NameA, Post>>

\* the category the claim gives a type
ClaimedKeyword(t) ==
    IF NonEmpty(t.fields) THEN <<"t", "y", "p", "e">>
    ELSE IF Present(t.inputFields) THEN <<"i", "n", "p", "u", "t">>
    ELSE IF Present(t.enumValues) THEN <<"e", "n", "u", "m">>
    ELSE <<"s", "c", "a", "l", "a", "r">>

\* C7 as stated: at most one block per type, of the category given by the
\* first test that holds (fields non-empty, inputFields non-null, enumValues
\* non-null, else scalar); a type whose fields list is absent or empty is
\* still tested for inputFields, then enumValues.
C7_Original ==
    [][\A t \in {types[k] : k \in 1..Len(types)} :
          (Handles(t) /\ ~SkippedName(t.name)) =>
              /\ AtMostOneBlock
              /\ AddedKeyword # <<>> => AddedKeyword = ClaimedKeyword(t)
              /\ (~NonEmpty(t.fields) /\ NonEmpty(t.inputFields))
                    => AddedKeyword = <<"i", "n", "p", "u", "t">>
              /\ (~NonEmpty(t.fields) /\ ~Present(t.inputFields) /\ NonEmpty(t.enumValues))
                    => AddedKeyword = <<"e", "n", "u", "m">>]_vars

\* the block the code gives a type, "" for none
AmendedKeyword(t) ==
    IF Present(t.fields) THEN (IF Empty(t.fields) THEN <<>> ELSE <<"t", "y", "p", "e">>)
    ELSE IF Present(t.inputFields) THEN <<"i", "n", "p", "u", "t">>
    ELSE IF Present(t.enumValues) THEN (IF Empty(t.enumValues) THEN <<>> ELSE <<"e", "n", "u", "m">>)
    ELSE <<"s", "c", "a", "l", "a", "r">>

\* C7 as amended: at most one block per type; fields non-null gives an object
\* block when the list is non-empty and no block when it is empty, without
\* any further test; else inputFields non-null gives an input block; else
\* enumValues non-null gives an enum block when non-empty and no block when
\* empty; else a scalar line.
C7_Amended ==
    [][\A t \in {types[k] : k \in 1..Len(types)} :
          (Handles(t) /\ ~SkippedName(t.name)) =>
              (AtMostOneBlock /\ AddedKeyword = AmendedKeyword(t))]_vars

\* a type with an empty fields list and an input field has been handled
\* and has added no block
C7_Witness ==
    /\ pc = "generate_loop"
    /\ idx = 1
    /\ ~SkippedName(types[1].name)
    /\ Empty(types[1].fields) /\ NonEmpty(types[1].inputFields)
    /\ schema_parts = <<>>

-----------------------------------------------------------------------------
(* Claims about main and generate_graphviz_diagram *)

AllStages == <<"read", "generate", "write_sdl", "diagram", "html">>

StageOf(message) ==
    CASE message = "Error reading input file" -> "read"
      [] message = "Error generating GraphQL schema" -> "generate"
      [] message = "Error writing to output file" -> "write_sdl"
      [] message = "Error generating Graphviz diagram" -> "diagram"
      [] message \in {"Error reading generated SVG file",
                      "Error writing visual HTML file"} -> "html"
      [] OTHER -> "none"

Failed == ~IsNone(status) /\ Get(status).code # 0

\* C9: the stages of main happen in the order read, generate, write SDL,
\* diagram, HTML; a failed stage ends the process with a message and a
\* non-zero status and no later stage is performed; no output file is written
\* when the input is not valid JSON or lacks data.__schema.types; the diagram
\* is never attempted after a failed SDL write.
C9_Pipeline ==
    /\ stages = SubSeq(AllStages, 1, Len(stages))
    /\ Failed <=> pc = "exit"
    /\ Failed => /\ stages # <<>>
                 /\ stages[Len(stages)] = StageOf(Get(status).message)
                 /\ ~ENABLED Next
    /\ (document.reads # "json" \/ ~document.path)
          => /\ files = {}
             /\ \A k \in 1..Len(stages) : stages[k] \in {"read", "generate"}
             /\ pc # "done"
    /\ (\E k \in 1..Len(stages) : stages[k] = "diagram") => "graphql" \in files
    /\ (\E k \in 1..Len(stages) : stages[k] = "html") => "svg" \in files
    /\ pc = "done" => /\ Get(status).code = 0
                      /\ stages = IF visual THEN AllStages ELSE SubSeq(AllStages, 1, 3)

\* the SDL write has failed in a run that asked for the diagram
C9_Witness ==
    /\ visual
    /\ pc = "exit"
    /\ Get(status).message = "Error writing to output file"
    /\ stages = <<"read", "generate", "write_sdl">>

RECURSIVE BaseType(_)
\* the innermost named type under the LIST and NON_NULL layers, None when
\* there is none
BaseType(graphql_type) ==
    IF IsNone(graphql_type) THEN None
    ELSE LET t == Get(graphql_type)
         IN  IF IsWrapper(t) THEN BaseType(t.ofType) ELSE t.name

RECURSIVE HasListLayer(_)
HasListLayer(graphql_type) ==
    /\ ~IsNone(graphql_type)
    /\ \/ Get(graphql_type).kind = Some("LIST")
       \/ HasListLayer(Get(graphql_type).ofType)

Entries(list) == IF IsNone(list) THEN {} ELSE {Get(list)[k] : k \in 1..Len(Get(list))}

\* the edges the claim gives the types array
ClaimedEdges ==
    LET named == {t \in {types[k] : k \in 1..Len(types)} :
                     ~IsNone(t.name) /\ Get(t.name) # <<>>}
        keys == {Get(t.name) : t \in named}
        sources == {t \in named : ~StartsWith(Get(t.name), <<"_", "_">>)}
        fieldsOf(t) == {Get(f) : f \in Entries(t.fields) \cup Entries(t.inputFields)}
    IN  UNION {{[src |-> Get(t.name),
                 dst |-> Get(BaseType(f.type)),
                 label |-> f.name \o <<" ">>
                           \o (IF HasListLayer(f.type) THEN <<"[", "*", "]">> ELSE <<"[", "1", "]">>)] :
                  f \in {g \in fieldsOf(t) :
                            /\ ~IsNone(BaseType(g.type))
                            /\ Get(BaseType(g.type)) \in keys
                            /\ Get(BaseType(g.type)) \notin
                                  {<<"I", "D">>, <<"S", "t", "r", "i", "n", "g">>, <<"I", "n", "t">>, <<"F", "l", "o", "a", "t">>, <<"B", "o", "o", "l", "e", "a", "n">>, <<"D", "a", "t", "e">>}
                            /\ Get(BaseType(g.type)) # Get(t.name)}} :
               t \in sources}

====
